---------------------------- MODULE Spec2Model ----------------------------
(***************************************************************************)
(* A model of app.py, the image metadata viewer: the byte-size formatter,  *)
(* the DMS-to-decimal converter, the three metadata readers, and main()'s  *)
(* render pass over the fixed temporary file temp_image.jpg.               *)
(*                                                                         *)
(* Numbers.  TLC's integers are 32 bits wide, Python's are not, so a byte  *)
(* count is kept as a numeral in base `power` (1024): a sequence of limbs, *)
(* least significant first, with `e` limbs behind the point.  Dividing a   *)
(* float by 1024 is exact (a power of two) for every count below 2^53, so  *)
(* the numeral carries exactly the value the float holds.  A DMS value is  *)
(* an exact fraction <<numerator, denominator>>; its float differs from    *)
(* the fraction by about 1e-14, far below the 1e-8 the converter rounds to.*)
(***************************************************************************)
EXTENDS Integers, Sequences, FiniteSets, TLC

VARIABLES
    call,     \* the pure function under test and its arguments
    ret,      \* what that call returned, once it has
    pc,       \* per session: the line main() has reached
    upload,   \* per session: the file st.file_uploader returned
    disk,     \* temp_image.jpg: absent, or the bytes last written to it
    loc,      \* per session: main()'s locals (image, exif_dict)
    view      \* per session: what the pass has rendered so far

vars == <<call, ret, pc, upload, disk, loc, view>>

None == [t |-> "None"]

(***************************************************************************)
(* format_bytes (lines 8-15)                                               *)
(***************************************************************************)
power == 1024

units == <<"Bytes", "KB", "MB", "GB", "TB">>

\* The limb of weight power^(i-1-e), 0 beyond the numeral's end.
Limb(x, i) == IF i \in 1..Len(x.d) THEN x.d[i] ELSE 0

\* A mutant of GreaterThanPower: size >= power.
GreaterOrEqualPower(x) ==
    LET u == x.e + 1
    IN  \/ \E i \in (u + 2)..Len(x.d) : x.d[i] # 0
        \/ Limb(x, u + 1) >= 1

\* size > power (line 12), read off the limbs: the units limb is x.e + 1.
GreaterThanPower(x) ==
    LET u == x.e + 1
    IN  \/ \E i \in (u + 2)..Len(x.d) : x.d[i] # 0
        \/ Limb(x, u + 1) > 1
        \/ Limb(x, u + 1) = 1 /\ \E i \in 1..u : Limb(x, i) # 0

\* size /= power (line 13): the point moves one limb up.
DivPower(x) == [x EXCEPT !.e = @ + 1]

RECURSIVE IntFrom(_, _)
IntFrom(d, i) == IF i > Len(d) THEN 0 ELSE d[i] + power * IntFrom(d, i + 1)

\* The whole part of the numeral.
IntPart(x) == IntFrom(x.d, x.e + 1)

\* 100 times the fraction behind the point, limb by limb from the lowest:
\* c is the carry (in the end the whole hundredths), top the highest
\* remainder limb, low whether a lower remainder limb is nonzero.
RECURSIVE FracHundredths(_, _, _, _, _)
FracHundredths(x, i, c, top, low) ==
    IF i > x.e THEN [q |-> c, top |-> top, low |-> low]
    ELSE LET t == 100 * Limb(x, i) + c
         IN  FracHundredths(x, i + 1, t \div power, t % power,
                            low \/ top # 0)

\* f"{size:.2f}" (line 15): the nearest hundredth, a tie going to the even
\* one, as Python's correctly rounded float formatting gives; the text is
\* <<whole part, two fraction digits>>.
Fmt2(x) ==
    LET f  == FracHundredths(x, 1, 0, 0, FALSE)
        up == \/ f.top > power \div 2
              \/ f.top = power \div 2 /\ f.low
              \/ f.top = power \div 2 /\ ~f.low /\ f.q % 2 = 1
        h  == 100 * IntPart(x) + f.q + (IF up THEN 1 ELSE 0)
    IN  <<h \div 100, h % 100>>

\* The while loop of lines 12-14, as the pair <<size, n>> it ends with.
RECURSIVE format_loop(_, _)
format_loop(size, n) ==
    IF GreaterThanPower(size) /\ n < Len(units) - 1
    THEN format_loop(DivPower(size), n + 1)
    ELSE <<size, n>>

\* format_bytes(size): size is the byte count's limbs; units[n] of the
\* code's 0-based list is units[n + 1] here.
format_bytes(size) ==
    LET r == format_loop([d |-> size, e |-> 0], 0)
    IN  [text |-> Fmt2(r[1]), unit |-> units[r[2] + 1]]

(***************************************************************************)
(* get_decimal_from_dms (lines 17-28)                                      *)
(***************************************************************************)
Ok(v) == [exc |-> "none", val |-> v]

Raise(e) == [exc |-> e]

\* dms[i-1][0] / dms[i-1][1] (lines 19-21): the subscripts raise IndexError
\* on a short triple or a short pair, the division ZeroDivisionError.
Component(dms, i) ==
    IF Len(dms) < i \/ Len(dms[i]) < 2 THEN Raise("IndexError")
    ELSE IF dms[i][2] = 0 THEN Raise("ZeroDivisionError")
    ELSE Ok(<<dms[i][1], dms[i][2]>>)

RatAdd(a, b) == <<a[1] * b[2] + b[1] * a[2], a[2] * b[2]>>

RatDivInt(a, k) == <<a[1], a[2] * k>>

Places == 8

\* The next `steps` decimal digits of r / den: <<digits, remainder>>.
RECURSIVE LongDiv(_, _, _, _)
LongDiv(r, den, steps, acc) ==
    IF steps = 0 THEN <<acc, r>>
    ELSE LongDiv((r * 10) % den, den, steps - 1, acc * 10 + (r * 10) \div den)

\* round(decimal, 8) (line 25) of sign * a[1]/a[2]: the whole part and the
\* eight digits after the point, rounded to nearest, a tie to the even one.
Round8(sign, a) ==
    LET ip  == a[1] \div a[2]
        ld  == LongDiv(a[1] % a[2], a[2], Places, 0)
        up  == 2 * ld[2] > a[2] \/ (2 * ld[2] = a[2] /\ ld[1] % 2 = 1)
        fp  == ld[1] + (IF up THEN 1 ELSE 0)
        top == 100000000
    IN  [t |-> "float", sign |-> sign,
         ip |-> ip + fp \div top, fp |-> fp % top]

\* A mutant of Southern: only 'S' negates.
SouthernOnly(ref) == ref = "S"

\* ref in ['S', 'W'] (line 23).
Southern(ref) == ref \in {"S", "W"}

\* The try block, lines 19-25: the value returned, or the exception raised.
try_body(dms, ref) ==
    LET degrees == Component(dms, 1)
        minutes == Component(dms, 2)
        seconds == Component(dms, 3)
    IN  IF degrees.exc # "none" THEN degrees
        ELSE IF minutes.exc # "none" THEN minutes
        ELSE IF seconds.exc # "none" THEN seconds
        ELSE LET decimal == RatAdd(RatAdd(degrees.val,
                                          RatDivInt(minutes.val, 60)),
                                   RatDivInt(seconds.val, 3600))
             IN  Ok(Round8(IF Southern(ref) THEN -1 ELSE 1, decimal))

\* A mutant of Caught: except ZeroDivisionError.
CaughtZeroOnly(exc) == exc = "ZeroDivisionError"

\* except Exception (line 26): every exception the try block can raise.
Caught(exc) == exc # "none"

\* The except clause of lines 26-28 applied to the try block's outcome b:
\* what the function returns, whether st.warning was called (line 27), and
\* the exception that left the function, if one did.
Handled(b) ==
    IF b.exc = "none" THEN [ret |-> b.val, warned |-> FALSE, raised |-> "none"]
    ELSE IF Caught(b.exc) THEN [ret |-> None, warned |-> TRUE, raised |-> "none"]
    ELSE [ret |-> None, warned |-> FALSE, raised |-> b.exc]

get_decimal_from_dms(dms, ref) == Handled(try_body(dms, ref))

(***************************************************************************)
(* Metadata values.  A byte string is the text of its decodable bytes plus *)
(* whether it also holds bytes that are not UTF-8; a tuple is a sequence;  *)
(* a mapping is a function from tag ids.                                   *)
(***************************************************************************)
Bytes(s, junk) == [t |-> "bytes", s |-> s, junk |-> junk]

Str(s) == [t |-> "str", s |-> s]

IntVal(v) == [t |-> "int", v |-> v]

Tuple(v) == [t |-> "tuple", v |-> v]

Dict(m) == [t |-> "dict", m |-> m]

\* bytes.decode(): strict UTF-8 (lines 35, 39).
decode(b) == IF b.junk THEN Raise("UnicodeDecodeError") ELSE Ok(b.s)

\* bytes.decode(errors="ignore") (lines 61, 83): undecodable bytes dropped.
decode_ignore(b) == Str(b.s)

\* The value as lines 59-63 and 81-85 leave it.
Decoded(value) == IF value.t = "bytes" THEN decode_ignore(value) ELSE value

\* d.get(key, default)
Get(d, key, default) == IF key \in DOMAIN d THEN d[key] ELSE default

(***************************************************************************)
(* extract_gps_coords (lines 30-43)                                        *)
(***************************************************************************)
GPSLatitudeRef == 1

GPSLatitude == 2

GPSLongitudeRef == 3

GPSLongitude == 4

\* The call's outcome c as the caller sees it.
Returned(c) == IF c.raised # "none" THEN Raise(c.raised) ELSE Ok(c.ret)

\* The conversion, once the reference bytes are decoded to ref.
Converted(dms, ref) ==
    IF ref.exc # "none" THEN ref
    ELSE Returned(get_decimal_from_dms(dms.v, ref.val))

\* One argument pair and call of lines 33-36 (37-40): gps[tag], then
\* gps[reftag].decode(), then the conversion.
Coordinate(gps, tag, reftag) ==
    IF tag \notin DOMAIN gps \/ reftag \notin DOMAIN gps THEN Raise("KeyError")
    ELSE Converted(gps[tag], decode(gps[reftag]))

\* Lines 41-43 over the two outcomes: the pair returned, or the exception
\* that left the function; only KeyError is caught (line 42).
Extracted(lat, lon) ==
    IF lat.exc = "none" /\ lon.exc = "none"
    THEN [ret |-> <<lat.val, lon.val>>, raised |-> "none"]
    ELSE IF (IF lat.exc # "none" THEN lat.exc ELSE lon.exc) = "KeyError"
    THEN [ret |-> <<None, None>>, raised |-> "none"]
    ELSE [ret |-> None,
          raised |-> IF lat.exc # "none" THEN lat.exc ELSE lon.exc]

GpsGroup(exif_dict) == Get(exif_dict, "GPS", Dict(<<>>)).m

extract_gps_coords(exif_dict) ==
    Extracted(Coordinate(GpsGroup(exif_dict), GPSLatitude, GPSLatitudeRef),
              Coordinate(GpsGroup(exif_dict), GPSLongitude, GPSLongitudeRef))

(***************************************************************************)
(* get_primary_exif_values (lines 45-65)                                   *)
(***************************************************************************)
Make == 271

Model == 272

Orientation == 274

XResolution == 282

YResolution == 283

ResolutionUnit == 296

Software == 305

tag_map ==
    << <<Make, "Make">>, <<Model, "Model">>, <<Orientation, "Orientation">>,
       <<XResolution, "XResolution">>, <<YResolution, "YResolution">>,
       <<ResolutionUnit, "ResolutionUnit">>, <<Software, "Software">> >>

Labels == {tag_map[i][2] : i \in 1..Len(tag_map)}

TagOf(label) == (CHOOSE i \in 1..Len(tag_map) : tag_map[i][2] = label)

\* A mutant of get_primary_exif_values: absent tags are left out.
get_primary_exif_values_skip(exif_dict) ==
    LET ifd == Get(exif_dict, "0th", Dict(<<>>)).m
    IN  [label \in {l \in Labels : tag_map[TagOf(l)][1] \in DOMAIN ifd} |->
            Decoded(ifd[tag_map[TagOf(label)][1]])]

\* get_primary_exif_values(exif_dict): primary_info, with a key for every
\* label of tag_map (line 64 runs on every turn of the loop).
get_primary_exif_values(exif_dict) ==
    LET ifd == Get(exif_dict, "0th", Dict(<<>>)).m
    IN  [label \in Labels |->
            Decoded(Get(ifd, tag_map[TagOf(label)][1], None))]

(***************************************************************************)
(* display_all_exif (lines 67-87)                                          *)
(***************************************************************************)
\* The order piexif.load builds its result in, which the loop of line 68
\* follows.
GroupOrder == <<"0th", "Exif", "GPS", "Interop", "1st", "thumbnail">>

ImageTags ==
    (Make :> "Make") @@ (Model :> "Model") @@ (Orientation :> "Orientation")
    @@ (XResolution :> "XResolution") @@ (YResolution :> "YResolution")
    @@ (ResolutionUnit :> "ResolutionUnit") @@ (Software :> "Software")
    @@ (513 :> "JPEGInterchangeFormat") @@ (514 :> "JPEGInterchangeFormatLength")

\* piexif.TAGS, the static name table (line 75), as far as the tags used here.
TAGS ==
    [ifd \in {"Image", "0th", "1st", "Exif", "GPS", "Interop"} |->
        CASE ifd \in {"Image", "0th", "1st"} -> ImageTags
          [] ifd = "Exif" -> (33434 :> "ExposureTime")
          [] ifd = "GPS" -> (GPSLatitudeRef :> "GPSLatitudeRef")
                            @@ (GPSLatitude :> "GPSLatitude")
                            @@ (GPSLongitudeRef :> "GPSLongitudeRef")
                            @@ (GPSLongitude :> "GPSLongitude")
          [] OTHER -> (1 :> "InteroperabilityIndex")]

\* Python truthiness of a group's value.
Truthy(v) ==
    CASE v.t = "dict" -> DOMAIN v.m # {}
      [] v.t = "bytes" -> v.s # "" \/ v.junk
      [] OTHER -> FALSE

\* A mutant of Skipped: only non-mappings are skipped.
SkippedNonDictOnly(tag_data) == tag_data.t # "dict"

\* not isinstance(tag_data, dict) or not tag_data (line 70).
Skipped(tag_data) == tag_data.t # "dict" \/ ~Truthy(tag_data)

\* tag_definitions.get(tag, {"name": f"Tag {tag}"})["name"] (lines 75-79).
TagName(ifd_name, tag) ==
    LET tag_definitions == Get(TAGS, ifd_name, <<>>)
    IN  IF tag \in DOMAIN tag_definitions THEN <<tag_definitions[tag]>>
        ELSE <<"Tag", tag>>

\* The st.write lines of one group (lines 77-87), in ascending tag order.
RECURSIVE TagLines(_, _, _)
TagLines(ifd_name, m, todo) ==
    IF todo = {} THEN <<>>
    ELSE LET tag == CHOOSE x \in todo : \A y \in todo : x <= y
         IN  <<[kind |-> "write", label |-> TagName(ifd_name, tag),
                value |-> Decoded(m[tag])]>>
             \o TagLines(ifd_name, m, todo \ {tag})

\* display_all_exif(exif_dict): everything it puts on the page, in order.
RECURSIVE display_from(_, _)
display_from(exif_dict, i) ==
    IF i > Len(GroupOrder) THEN <<>>
    ELSE LET ifd_name == GroupOrder[i]
         IN  IF ifd_name \notin DOMAIN exif_dict \/ Skipped(exif_dict[ifd_name])
             THEN display_from(exif_dict, i + 1)
             ELSE <<[kind |-> "subheader", ifd |-> ifd_name]>>
                  \o TagLines(ifd_name, exif_dict[ifd_name].m,
                              DOMAIN exif_dict[ifd_name].m)
                  \o display_from(exif_dict, i + 1)

display_all_exif(exif_dict) == display_from(exif_dict, 1)

(***************************************************************************)
(* The byte counts format_bytes is tried on: NumLimbs limbs each, the top  *)
(* one small enough that the count stays below 2^53.                       *)
(***************************************************************************)
NumLimbs == 6

LimbVals == {0, 1, 128, 384, 1023}

TopVals == {0, 1, 7}

ByteCounts ==
    {b \in [1..NumLimbs -> LimbVals \cup TopVals] :
        /\ b[NumLimbs] \in TopVals
        /\ \A i \in 1..(NumLimbs - 1) : b[i] \in LimbVals}

(***************************************************************************)
(* The DMS triples and references get_decimal_from_dms is tried on.        *)
(***************************************************************************)
Nums == {0, 1, 26, 40, 58, 79}

Dens == {0, 1, 2}

Pairs == {<<n, d>> : n \in Nums, d \in Dens}

Malformed == { <<>>, << <<40, 1>>, <<26, 1>> >>, << <<40, 1>>, <<26>>, <<0, 1>> >>,
               << <<40, 0>>, <<26, 1>> >> }

DmsTriples == {<<a, b, c>> : a \in Pairs, b \in Pairs, c \in Pairs} \cup Malformed

Refs == {"N", "S", "E", "W"}

(***************************************************************************)
(* The metadata structures the readers are tried on.  piexif.load returns  *)
(* the five groups as mappings plus "thumbnail", which is None unless the  *)
(* "1st" group holds both thumbnail pointer tags (513 and 514).            *)
(***************************************************************************)
Pittsburgh == << <<40, 1>>, <<26, 1>>, <<0, 1>> >>

West == << <<79, 1>>, <<58, 1>>, <<0, 1>> >>

ZeroSeconds == << <<40, 1>>, <<26, 1>>, <<0, 0>> >>

Gps(lat, latref, lon, lonref) ==
    (GPSLatitudeRef :> latref) @@ (GPSLatitude :> Tuple(lat))
    @@ (GPSLongitudeRef :> lonref) @@ (GPSLongitude :> Tuple(lon))

Without(m, tags) == [t \in DOMAIN m \ tags |-> m[t]]

NorthB == Bytes("N", FALSE)

WestB == Bytes("W", FALSE)

ZerothGroups ==
    { <<>>,
      (Make :> Bytes("Canon", FALSE)) @@ (Model :> Bytes("EOS", FALSE)),
      (Software :> Bytes("gimp", TRUE)) @@ (Orientation :> IntVal(1))
          @@ (59999 :> IntVal(7)) }

GpsGroups ==
    { <<>>,
      Gps(Pittsburgh, NorthB, West, WestB),
      Gps(West, Bytes("S", FALSE), Pittsburgh, Bytes("E", FALSE)),
      Without(Gps(Pittsburgh, NorthB, West, WestB), {GPSLongitudeRef}),
      Without(Gps(Pittsburgh, NorthB, West, WestB), {GPSLatitude}),
      Gps(ZeroSeconds, NorthB, West, WestB),
      Gps(Pittsburgh, NorthB, ZeroSeconds, WestB),
      Gps(ZeroSeconds, NorthB, ZeroSeconds, WestB),
      Gps(Pittsburgh, Bytes("", TRUE), West, WestB),
      Gps(Pittsburgh, NorthB, << <<79, 1>>, <<58, 1>> >>, WestB) }

ExifGroups == { <<>>, (33434 :> Tuple(<<1, 250>>)) @@ (41000 :> IntVal(3)) }

ThumbTags == {513, 514}

FirstGroups ==
    { <<>>, (Make :> Bytes("Canon", FALSE)),
      (513 :> IntVal(600)) @@ (514 :> IntVal(2)) }

Thumbnails == {None, Bytes("", FALSE), Bytes("", TRUE)}

Structure(z, e, g, f, th) ==
    [ifd \in {"0th", "Exif", "GPS", "Interop", "1st", "thumbnail"} |->
        CASE ifd = "0th" -> Dict(z)
          [] ifd = "Exif" -> Dict(e)
          [] ifd = "GPS" -> Dict(g)
          [] ifd = "Interop" -> Dict(<<>>)
          [] ifd = "1st" -> Dict(f)
          [] OTHER -> th]

\* Every structure built from the groups above, whatever its thumbnail.
AnyDicts ==
    {Structure(z, e, g, f, th) : z \in ZerothGroups, e \in ExifGroups,
        g \in GpsGroups, f \in FirstGroups, th \in Thumbnails}

\* The structures piexif.load can return (line 102).
PiexifDicts ==
    {x \in AnyDicts : x["thumbnail"] # None => ThumbTags \subseteq DOMAIN x["1st"].m}

\* The same structures with a group missing altogether.
ReaderInputs ==
    AnyDicts
    \cup {[ifd \in DOMAIN x \ {"GPS"} |-> x[ifd]] : x \in AnyDicts}
    \cup {[ifd \in DOMAIN x \ {"0th"} |-> x[ifd]] : x \in AnyDicts}

Pending == [done |-> FALSE]

NoCall == [fn |-> "none"]

(***************************************************************************)
(* main() (lines 90-139): one render pass per session, step by step.  The  *)
(* sessions of one process share the working directory, hence the file     *)
(* temp_image.jpg, which `disk` holds.                                     *)
(***************************************************************************)
Sessions == {"s1", "s2"}

NoLocals ==
    [image |-> None, exif_dict |-> None, exc |-> "none", at |-> "none"]

NoView == [tab1 |-> <<>>, tab2 |-> <<>>]

IdleMain ==
    /\ pc = [s \in Sessions |-> "idle"]
    /\ upload = [s \in Sessions |-> None]
    /\ disk = None
    /\ loc = [s \in Sessions |-> NoLocals]
    /\ view = [s \in Sessions |-> NoView]

\* An uploaded file: its name, its length in bytes (as limbs), whether PIL
\* can decode it, and its EXIF payload: "absent", "corrupt", or the
\* structure piexif.load parses it to.
File(name, size, img, exif) ==
    [t |-> "file", name |-> name, size |-> size, img |-> img, exif |-> exif]

Absent == [t |-> "absent"]

Corrupt == [t |-> "corrupt"]

EmptyStructure == Structure(<<>>, <<>>, <<>>, <<>>, None)

SizeA == <<384, 1, 0, 0, 0, 0>>

SizeB == <<0, 128, 2, 0, 0, 0>>

PassFiles ==
    {File("a.jpg", SizeA, "ok", x) : x \in PiexifDicts \cup {Absent, Corrupt}}
    \cup {File("b.jpg", SizeB, "ok", x) : x \in PiexifDicts}
    \cup {File("c.jpg", SizeB, "bad", Absent)}

RaceFiles ==
    { File("a.jpg", SizeA, "ok",
           Structure(<<>>, <<>>, Gps(Pittsburgh, NorthB, West, WestB), <<>>, None)),
      File("b.jpg", SizeB, "ok", EmptyStructure),
      File("c.jpg", SizeB, "bad", Absent) }

\* What piexif.load (line 102) can do with a payload: raise on a corrupt one,
\* return the parsed structure of a valid one.  For the empty payload b""
\* that line 102 passes when the image has none, both the empty structure
\* and an exception are kept: the source does not settle which.
LoadOutcomes(payload) ==
    CASE payload = Corrupt -> {Raise("InvalidImageDataError")}
      [] payload = Absent -> {Ok(EmptyStructure), Raise("InvalidImageDataError")}
      [] OTHER -> {Ok(payload)}

\* An uncaught exception ends the pass where it is raised.
Fail(s, exc) ==
    /\ pc' = [pc EXCEPT ![s] = "failed"]
    /\ loc' = [loc EXCEPT ![s].exc = exc, ![s].at = pc[s]]

Emit(s, tab, items) == view' = [view EXCEPT ![s][tab] = @ \o items]

Write(label, value) == [kind |-> "write", label |-> <<label>>, value |-> value]

\* Lines 94-96: the uploader returns a file.
Upload(s, f) ==
    /\ pc[s] = "idle"
    /\ upload' = [upload EXCEPT ![s] = f]
    /\ pc' = [pc EXCEPT ![s] = "write"]
    /\ UNCHANGED <<call, ret, disk, loc, view>>

\* Lines 97-99: the upload's bytes replace whatever temp_image.jpg held.
WriteTemp(s) ==
    /\ pc[s] = "write"
    /\ disk' = upload[s]
    /\ pc' = [pc EXCEPT ![s] = "open"]
    /\ UNCHANGED <<call, ret, upload, loc, view>>

\* Line 101: Image.open(temp_path) decodes what the file holds now.
OpenImage(s) ==
    /\ pc[s] = "open"
    /\ IF disk = None THEN Fail(s, "FileNotFoundError")
       ELSE IF disk.img = "bad" THEN Fail(s, "UnidentifiedImageError")
       ELSE /\ loc' = [loc EXCEPT ![s].image = disk]
            /\ pc' = [pc EXCEPT ![s] = "load"]
    /\ UNCHANGED <<call, ret, upload, disk, view>>

\* Line 102: the image's EXIF payload, b"" without one, parsed.
LoadExif(s) ==
    /\ pc[s] = "load"
    /\ \E o \in LoadOutcomes(loc[s].image.exif) :
           IF o.exc # "none" THEN Fail(s, o.exc)
           ELSE /\ loc' = [loc EXCEPT ![s].exif_dict = o.val]
                /\ pc' = [pc EXCEPT ![s] = "size"]
    /\ UNCHANGED <<call, ret, upload, disk, view>>

\* Lines 110-111: the file name, and the size of temp_image.jpg as it is now.
BasicSize(s) ==
    /\ pc[s] = "size"
    /\ IF disk = None
       THEN Fail(s, "FileNotFoundError") /\ UNCHANGED view
       ELSE /\ Emit(s, "tab1", <<Write("File Name", upload[s].name),
                                 Write("Size", format_bytes(disk.size))>>)
            /\ pc' = [pc EXCEPT ![s] = "mtime"]
            /\ UNCHANGED loc
    /\ UNCHANGED <<call, ret, upload, disk>>

\* Lines 112-115: the file's modification time, then the image's properties;
\* the name of the file last written stands for the time of that write, the
\* name of the decoded file for its format, dimensions and mode.
BasicModified(s) ==
    /\ pc[s] = "mtime"
    /\ IF disk = None
       THEN Fail(s, "FileNotFoundError") /\ UNCHANGED view
       ELSE /\ Emit(s, "tab1", <<Write("Modified", disk.name),
                                 Write("Format", loc[s].image.name)>>)
            /\ pc' = [pc EXCEPT ![s] = "camera"]
            /\ UNCHANGED loc
    /\ UNCHANGED <<call, ret, upload, disk>>

\* The labels of tag_map in its order whose value is not None (lines 119-121).
RECURSIVE CameraLines(_, _)
CameraLines(primary, i) ==
    IF i > Len(tag_map) THEN <<>>
    ELSE (IF primary[tag_map[i][2]] # None
          THEN <<Write(tag_map[i][2], primary[tag_map[i][2]])>> ELSE <<>>)
         \o CameraLines(primary, i + 1)

\* Lines 117-121.
CameraInfo(s) ==
    /\ pc[s] = "camera"
    /\ Emit(s, "tab1", CameraLines(get_primary_exif_values(loc[s].exif_dict), 1))
    /\ pc' = [pc EXCEPT ![s] = "gps"]
    /\ UNCHANGED <<call, ret, upload, disk, loc>>

NoGpsNotice == [kind |-> "info", text |-> "No GPS data found in this image."]

\* Lines 125-130: the coordinate lines and the map, or the notice.
GpsItems(lat, lon) ==
    IF lat # None /\ lon # None
    THEN <<Write("Latitude", lat), Write("Longitude", lon),
           [kind |-> "map", lat |-> lat, lon |-> lon]>>
    ELSE <<NoGpsNotice>>

\* Lines 123-130 given what extract_gps_coords did: an exception leaving it
\* leaves main() too.
GpsStep(s, r) ==
    IF r.raised # "none" THEN Fail(s, r.raised) /\ UNCHANGED view
    ELSE /\ Emit(s, "tab1", GpsItems(r.ret[1], r.ret[2]))
         /\ pc' = [pc EXCEPT ![s] = "detail"]
         /\ UNCHANGED loc

GpsMap(s) ==
    /\ pc[s] = "gps"
    /\ GpsStep(s, extract_gps_coords(loc[s].exif_dict))
    /\ UNCHANGED <<call, ret, upload, disk>>

NoExifNotice == Write("No EXIF data found.", None)

\* A mutant of AnyValue: all(exif_dict.values()).
AllValues(exif_dict) == \A g \in DOMAIN exif_dict : Truthy(exif_dict[g])

\* any(exif_dict.values()) (line 134).
AnyValue(exif_dict) == \E g \in DOMAIN exif_dict : Truthy(exif_dict[g])

\* Lines 132-137: the dump, or the notice.
Detail(s) ==
    /\ pc[s] = "detail"
    /\ IF AnyValue(loc[s].exif_dict)
       THEN Emit(s, "tab2", display_all_exif(loc[s].exif_dict))
       ELSE Emit(s, "tab2", <<NoExifNotice>>)
    /\ pc' = [pc EXCEPT ![s] = "remove"]
    /\ UNCHANGED <<call, ret, upload, disk, loc>>

\* Line 139: os.remove(temp_path).
RemoveTemp(s) ==
    /\ pc[s] = "remove"
    /\ IF disk = None
       THEN Fail(s, "FileNotFoundError") /\ UNCHANGED disk
       ELSE /\ disk' = None
            /\ pc' = [pc EXCEPT ![s] = "done"]
            /\ UNCHANGED loc
    /\ UNCHANGED <<call, ret, upload, view>>

InitMain ==
    /\ call = NoCall
    /\ ret = Pending
    /\ IdleMain

\* One session alone.
NextPass ==
    \/ \E f \in PassFiles : Upload("s1", f)
    \/ WriteTemp("s1")
    \/ OpenImage("s1")
    \/ LoadExif("s1")
    \/ BasicSize("s1")
    \/ BasicModified("s1")
    \/ CameraInfo("s1")
    \/ GpsMap("s1")
    \/ Detail("s1")
    \/ RemoveTemp("s1")

SpecPass == InitMain /\ [][NextPass]_vars

\* Two sessions of one process, their steps interleaved.
NextRace ==
    \E s \in Sessions :
        \/ \E f \in RaceFiles : Upload(s, f)
        \/ WriteTemp(s)
        \/ OpenImage(s)
        \/ LoadExif(s)
        \/ BasicSize(s)
        \/ BasicModified(s)
        \/ CameraInfo(s)
        \/ GpsMap(s)
        \/ Detail(s)
        \/ RemoveTemp(s)

SpecRace == InitMain /\ [][NextRace]_vars

InitFmt ==
    /\ call \in {[fn |-> "format_bytes", size |-> b] : b \in ByteCounts}
    /\ ret = Pending
    /\ IdleMain

CallFormatBytes ==
    /\ call.fn = "format_bytes"
    /\ ~ret.done
    /\ ret' = [done |-> TRUE, val |-> format_bytes(call.size)]
    /\ UNCHANGED <<call, pc, upload, disk, loc, view>>

NextFmt == CallFormatBytes

SpecFmt == InitFmt /\ [][NextFmt]_vars

InitDms ==
    /\ call \in {[fn |-> "get_decimal_from_dms", dms |-> d, ref |-> r] :
                    d \in DmsTriples, r \in Refs}
    /\ ret = Pending
    /\ IdleMain

CallGetDecimalFromDms ==
    /\ call.fn = "get_decimal_from_dms"
    /\ ~ret.done
    /\ ret' = [done |-> TRUE, val |-> get_decimal_from_dms(call.dms, call.ref)]
    /\ UNCHANGED <<call, pc, upload, disk, loc, view>>

NextDms == CallGetDecimalFromDms

SpecDms == InitDms /\ [][NextDms]_vars

InitReaders ==
    /\ call \in {[fn |-> f, exif_dict |-> x] :
                    f \in {"extract_gps_coords", "get_primary_exif_values",
                           "display_all_exif"},
                    x \in ReaderInputs}
    /\ ret = Pending
    /\ IdleMain

CallExtractGpsCoords ==
    /\ call.fn = "extract_gps_coords"
    /\ ~ret.done
    /\ ret' = [done |-> TRUE, val |-> extract_gps_coords(call.exif_dict)]
    /\ UNCHANGED <<call, pc, upload, disk, loc, view>>

CallGetPrimaryExifValues ==
    /\ call.fn = "get_primary_exif_values"
    /\ ~ret.done
    /\ ret' = [done |-> TRUE, val |-> get_primary_exif_values(call.exif_dict)]
    /\ UNCHANGED <<call, pc, upload, disk, loc, view>>

CallDisplayAllExif ==
    /\ call.fn = "display_all_exif"
    /\ ~ret.done
    /\ ret' = [done |-> TRUE, val |-> display_all_exif(call.exif_dict)]
    /\ UNCHANGED <<call, pc, upload, disk, loc, view>>

NextReaders ==
    \/ CallExtractGpsCoords
    \/ CallGetPrimaryExifValues
    \/ CallDisplayAllExif

SpecReaders == InitReaders /\ [][NextReaders]_vars

(***************************************************************************)
(* Claims about format_bytes                                               *)
(***************************************************************************)
\* b <= power^j, for a byte count b given by its limbs.
LeqPow(b, j) ==
    /\ \A i \in (j + 2)..Len(b) : b[i] = 0
    /\ \/ j + 1 > Len(b)
       \/ b[j + 1] = 0
       \/ b[j + 1] = 1 /\ \A i \in 1..j : b[i] = 0

Ladder == 0..(Len(units) - 1)

\* The ladder steps k at which b / 1024^k <= 1024.
Fits(b) == {k \in Ladder : LeqPow(b, k + 1)}

SmallestK(b) ==
    IF Fits(b) = {} THEN Len(units) - 1
    ELSE CHOOSE k \in Fits(b) : \A j \in Fits(b) : k <= j

LargestK(b) ==
    IF Fits(b) = {} THEN Len(units) - 1
    ELSE CHOOSE k \in Fits(b) : \A j \in Fits(b) : k >= j

FmtDone == call.fn = "format_bytes" /\ ret.done

\* The count is below 2^20, so that it and its hundredfold fit TLC's integers.
Small(b) == \A i \in 3..Len(b) : b[i] = 0

\* C2, as amended: format_bytes(b) is b / 1024^k to two decimal places with
\* the k-th unit, k the SMALLEST step of the ladder at which the scaled value
\* is <= 1024, or 4 when there is none; 0 gives "0.00 Bytes".
C2_FormatBytesSmallestK ==
    FmtDone =>
        LET b == call.size
            k == SmallestK(b)
            r == ret.val
            h == 100 * r.text[1] + r.text[2]
            pk == IF k = 0 THEN 1 ELSE power
        IN  /\ r.unit = units[k + 1]
            /\ r.text = Fmt2([d |-> b, e |-> k])
            /\ r.text[2] \in 0..99
            /\ (\A i \in 1..Len(b) : b[i] = 0)
                   => r = [text |-> <<0, 0>>, unit |-> "Bytes"]
            /\ Small(b) =>
                   LET v == b[1] + power * b[2]
                       dlt == h * pk - 100 * v
                   IN  k <= 1 /\ 2 * dlt <= pk /\ -2 * dlt <= pk

\* C2 witness: a count above 1024 TB, formatted, stays on the last unit.
C2_Witness ==
    /\ FmtDone
    /\ ret.val.unit = "TB"
    /\ ret.val.text[1] > power

\* C2 as stated: k is the LARGEST step at which the scaled value is <= 1024.
C2_AsStatedLargestK ==
    FmtDone => ret.val.unit = units[LargestK(call.size) + 1]

(***************************************************************************)
(* Claims about get_decimal_from_dms                                       *)
(***************************************************************************)
DmsDone == call.fn = "get_decimal_from_dms" /\ ret.done

WellFormed(dms) == Len(dms) = 3 /\ \A i \in 1..3 : Len(dms[i]) = 2

NonzeroDens(dms) == WellFormed(dms) /\ \A i \in 1..3 : dms[i][2] # 0

\* deg + min/60 + sec/3600 as one fraction over 3600 * d1 * d2 * d3.
ExactNum(dms) ==
    3600 * dms[1][1] * dms[2][2] * dms[3][2]
    + 60 * dms[2][1] * dms[1][2] * dms[3][2]
    + dms[3][1] * dms[1][2] * dms[2][2]

ExactDen(dms) == 3600 * dms[1][2] * dms[2][2] * dms[3][2]

\* |ip.fp - n/den| <= 1e-8, with n/den's first eight decimals taken four
\* at a time.
Within1e8(ip, fp, n, den) ==
    LET i  == n \div den
        r0 == n % den
        q1 == (r0 * 10000) \div den
        r1 == (r0 * 10000) % den
        q2 == (r1 * 10000) \div den
        r2 == (r1 * 10000) % den
        f  == q1 * 10000 + q2
        di == ip - i
    IN  /\ di \in {-1, 0, 1}
        /\ LET diff == di * 100000000 + fp - f
           IN  diff \in {0, 1} \/ (diff = -1 /\ r2 = 0)

\* C3: with three nonzero denominators the result is deg + min/60 + sec/3600
\* to 8 decimal places, positive for 'N' and 'E', negated for 'S' and 'W'.
C3_DecimalFromDms ==
    (DmsDone /\ NonzeroDens(call.dms)) =>
        LET r == ret.val.ret
        IN  /\ ret.val.raised = "none"
            /\ r.t = "float"
            /\ r.fp \in 0..99999999
            /\ r.sign = (IF call.ref \in {"S", "W"} THEN -1 ELSE 1)
            /\ Within1e8(r.ip, r.fp, ExactNum(call.dms), ExactDen(call.dms))

\* C3 witness: the longitude of the spec's example, 79 deg 58' W.
C3_Witness ==
    /\ DmsDone
    /\ call.dms = << <<79, 1>>, <<58, 1>>, <<0, 1>> >>
    /\ call.ref = "W"
    /\ ret.val.ret = [t |-> "float", sign |-> -1, ip |-> 79, fp |-> 96666667]

\* C4: a zero denominator or a malformed triple gives None after a warning,
\* and no input makes the function raise.
C4_ZeroDenominatorGivesNone ==
    DmsDone =>
        /\ ret.val.raised = "none"
        /\ ~NonzeroDens(call.dms) => (ret.val.ret = None /\ ret.val.warned)

\* C4 witness: a zero denominator in the seconds, and a short triple.
C4_Witness ==
    /\ DmsDone
    /\ \/ WellFormed(call.dms) /\ call.dms[3][2] = 0 /\ call.dms[1][2] # 0
          /\ call.dms[2][2] # 0
       \/ Len(call.dms) = 2 /\ call.dms[1][2] # 0
    /\ ret.val.ret = None
    /\ ret.val.warned

(***************************************************************************)
(* Claims about the metadata readers                                       *)
(***************************************************************************)
ExtractDone == call.fn = "extract_gps_coords" /\ ret.done

GpsTags == {GPSLatitudeRef, GPSLatitude, GPSLongitudeRef, GPSLongitude}

\* The GPS group is missing, or one of the four tags is, or a component's
\* conversion fails (a zero denominator or a malformed triple).
GpsAbsent(x) ==
    \/ "GPS" \notin DOMAIN x
    \/ ~(GpsTags \subseteq DOMAIN x["GPS"].m)
    \/ ~NonzeroDens(x["GPS"].m[GPSLatitude].v)
    \/ ~NonzeroDens(x["GPS"].m[GPSLongitude].v)

\* C5, as stated: extract_gps_coords never raises, returns (None, None)
\* whenever the GPS data is absent or a conversion fails, and never returns
\* a pair with exactly one missing component.
C5_AsStatedBothMissing ==
    ExtractDone =>
        /\ ret.val.raised = "none"
        /\ GpsAbsent(call.exif_dict) => ret.val.ret = <<None, None>>
        /\ ret.val.ret # None =>
               ((ret.val.ret[1] = None) <=> (ret.val.ret[2] = None))

PrimaryDone == call.fn = "get_primary_exif_values" /\ ret.done

\* The primary group of a structure, empty when the structure has none.
Primary(x) == IF "0th" \in DOMAIN x THEN x["0th"].m ELSE <<>>

LabelsPresent(x) ==
    {tag_map[i][2] : i \in {j \in 1..Len(tag_map) : tag_map[j][1] \in DOMAIN Primary(x)}}

\* C6, as amended: the record holds all seven labels; a label's value is
\* None exactly when its tag is absent from the "0th" group, and otherwise
\* the tag's value with byte strings decoded; with all seven tags (or the
\* group) missing, every label maps to None.
C6_PrimaryHoldsEveryLabel ==
    PrimaryDone =>
        LET x == call.exif_dict
            r == ret.val
        IN  /\ DOMAIN r = {"Make", "Model", "Orientation", "XResolution",
                           "YResolution", "ResolutionUnit", "Software"}
            /\ \A l \in DOMAIN r : (r[l] = None) <=> (l \notin LabelsPresent(x))
            /\ \A i \in 1..Len(tag_map) :
                   tag_map[i][1] \in DOMAIN Primary(x) =>
                       LET v == Primary(x)[tag_map[i][1]]
                       IN  r[tag_map[i][2]] =
                               (IF v.t = "bytes" THEN Str(v.s) ELSE v)

\* C6 witness: a structure without a single camera tag, read.
C6_Witness ==
    /\ PrimaryDone
    /\ LabelsPresent(call.exif_dict) = {}
    /\ "0th" \in DOMAIN call.exif_dict
    /\ \A l \in DOMAIN ret.val : ret.val[l] = None

\* C6, as stated: the record holds a label only for the tags present, so it
\* is empty when all seven are missing.
C6_AsStatedOnlyPresentLabels ==
    PrimaryDone => DOMAIN ret.val = LabelsPresent(call.exif_dict)

DisplayDone == call.fn = "display_all_exif" /\ ret.done

\* The groups whose value is a non-empty mapping.
Shown(x) == {g \in DOMAIN x : x[g].t = "dict" /\ DOMAIN x[g].m # {}}

HeaderAt(out, g) == {i \in 1..Len(out) : out[i].kind = "subheader" /\ out[i].ifd = g}

\* What display_all_exif emitted for structure x, against the claim: a header
\* for exactly the groups of Shown(x), each followed by one line per tag
\* and nothing else, the label being the table's name or "Tag <id>".
DumpAsClaimed(x, out) ==
    /\ {out[i].ifd : i \in {j \in 1..Len(out) : out[j].kind = "subheader"}} = Shown(x)
    /\ out # <<>> => out[1].kind = "subheader"
    /\ \A g \in Shown(x) :
           /\ Cardinality(HeaderAt(out, g)) = 1
           /\ LET h == CHOOSE i \in HeaderAt(out, g) : TRUE
                  m == x[g].m
                  n == Cardinality(DOMAIN m)
                  seg == (h + 1)..(h + n)
              IN  /\ h + n <= Len(out)
                  /\ \A j \in seg : out[j].kind = "write"
                  /\ h + n < Len(out) => out[h + n + 1].kind = "subheader"
                  /\ \A tag \in DOMAIN m :
                         Cardinality({j \in seg :
                             /\ out[j].label =
                                    (IF tag \in DOMAIN TAGS[g] THEN <<TAGS[g][tag]>>
                                     ELSE <<"Tag", tag>>)
                             /\ out[j].value =
                                    (IF m[tag].t = "bytes" THEN Str(m[tag].s)
                                     ELSE m[tag])}) = 1

\* C7: display_all_exif emits a group iff its value is a non-empty mapping,
\* one label/value line per tag, unknown ids labelled "Tag <id>".
C7_DumpShowsNonEmptyMappings ==
    DisplayDone => DumpAsClaimed(call.exif_dict, ret.val)

\* C7 witness: a dump over a thumbnail blob, an empty group and an unknown
\* tag id.
C7_Witness ==
    /\ DisplayDone
    /\ call.exif_dict["thumbnail"] = Bytes("", TRUE)
    /\ "GPS" \in DOMAIN call.exif_dict
    /\ call.exif_dict["GPS"].m = <<>>
    /\ \E i \in 1..Len(ret.val) :
           ret.val[i].kind = "write" /\ ret.val[i].label = <<"Tag", 59999>>
    /\ \E i \in 1..Len(ret.val) :
           ret.val[i].kind = "subheader" /\ ret.val[i].ifd = "1st"

(***************************************************************************)
(* Claims about main()'s render pass                                       *)
(***************************************************************************)
\* The pass of session s is over: it ran to its last line, or an exception
\* left main().
Ended(s) == pc[s] \in {"done", "failed"}

\* C1, as stated: when a pass that started with an uploaded file is over,
\* temp_image.jpg is gone, whether or not decoding, parsing or extraction
\* raised on the way.
C1_AsStatedTempFileRemoved ==
    \A s \in Sessions : Ended(s) => disk = None

\* The detail view of session s has been produced (lines 132-137 have run).
DetailProduced(s) ==
    pc[s] \in {"remove", "done"} \/ (pc[s] = "failed" /\ loc[s].at = "remove")

\* How many items of a tab are the "No EXIF data found." notice, and how
\* many are other label/value lines.
NoExifNotices(t) == Cardinality({i \in 1..Len(t) : t[i] = NoExifNotice})

TagLineCount(t) ==
    Cardinality({i \in 1..Len(t) : t[i].kind = "write" /\ t[i] # NoExifNotice})

C9_AsStatedNoInterference ==
    \A s \in Sessions :
        /\ loc[s].image # None => loc[s].image = upload[s]
        /\ \A i \in 1..Len(view[s].tab1) :
               view[s].tab1[i].label = <<"Size">> =>
                   view[s].tab1[i].value = format_bytes(upload[s].size)
        /\ ~(pc[s] = "failed" /\ loc[s].at = "remove")

\* The summary view of session s was reached: lines 101-102 went through.
ReachedSummary(s) == loc[s].exif_dict # None

MapCount(t) == Cardinality({i \in 1..Len(t) : t[i].kind = "map"})

NoGpsNotices(t) == Cardinality({i \in 1..Len(t) : t[i] = NoGpsNotice})

CoordinateLines(t) ==
    Cardinality({i \in 1..Len(t) :
        t[i].kind = "write" /\ t[i].label \in {<<"Latitude">>, <<"Longitude">>}})

\* The map or the notice in tab1, as the claim has it for the pair `got`
\* that extract_gps_coords returned.
GpsBranchAsClaimed(t1, got) ==
    /\ MapCount(t1) + NoGpsNotices(t1) = 1
    /\ (MapCount(t1) = 1) <=> (got[1] # None /\ got[2] # None)
    /\ \A i \in 1..Len(t1) :
           t1[i].kind = "map" => (t1[i].lat = got[1] /\ t1[i].lon = got[2])
    /\ CoordinateLines(t1) = 2 * MapCount(t1)

\* C10, as stated: every pass that reached the summary view has, when it is
\* over, exactly one of the map and the "No GPS data" notice, the map iff
\* both extracted components are non-missing and at exactly that point.
C10_AsStatedMapOrNotice ==
    \A s \in Sessions :
        (Ended(s) /\ ReachedSummary(s)) =>
            GpsBranchAsClaimed(view[s].tab1,
                               extract_gps_coords(loc[s].exif_dict).ret)

\* What does hold of lines 123-130: once extract_gps_coords has returned a
\* pair, the branch is as C10 describes it.
GpsBranchWhenReturned ==
    \A s \in Sessions :
        pc[s] \in {"detail", "remove", "done"} =>
            GpsBranchAsClaimed(view[s].tab1,
                               extract_gps_coords(loc[s].exif_dict).ret)

====
